---- MODULE Spec2Model ----
(***************************************************************************)
(* Threshold evaluation and alert dispatch of system-health-monitor.js:    *)
(* checkSystemHealth (one evaluation cycle), the persisted last-alert      *)
(* timestamp (getLastAlertTime / setLastAlertTime) and the asynchronous    *)
(* webhook POST started by sendSlackAlert; and the snapshot and context    *)
(* providers (getCpuUsage ... getDiskUsage) as functions of what execSync  *)
(* does.                                                                   *)
(*                                                                         *)
(* Time is Date.now() in milliseconds.  The clock is assumed monotonic and *)
(* is observed at a granularity of TickMs.  JavaScript values that may be  *)
(* null or NaN are modelled as tagged records (Null, NaN, Num(n)) and the  *)
(* operators Sub, GE and Falsy follow the JavaScript semantics of          *)
(* "-", ">=" and "!" on them.                                              *)
(***************************************************************************)
EXTENDS Integers, Sequences, FiniteSets, TLC

\* ---------------------------------------------------------------- configuration
CPU_THRESHOLD == 90
MEM_THRESHOLD == 90
SWAP_THRESHOLD == 50
\* the disk monitor
DISK_THRESHOLD == 80
\* the name of each script's LAST_ALERT_FILE, in the directory of the scripts
LAST_ALERT_FILE == ".last_health_alert"
\* faulty variant: the disk monitor uses the file of the health monitor
DISK_LAST_ALERT_FILE_OfHealth == ".last_health_alert"
DISK_LAST_ALERT_FILE == ".last_disk_alert"
DISK_ALERT_COOLDOWN == 30 * 60 * 1000
CPU_OVER_THRESHOLD_DURATION == 5 * 60 * 1000
CHECK_INTERVAL == 5 * 60 * 1000
ALERT_COOLDOWN == 30 * 60 * 1000

\* ---------------------------------------------------------------- bounds
\* The clock advances at most MaxTicks times, TickMs at a time.
MaxTicks == 4
\* At most MaxInFlight webhook POSTs are pending at once.
MaxInFlight == 2
\* the longest command output has MaxLines lines
MaxLines == 3
\* formatProcessList is given at most MaxProcesses processes
MaxProcesses == 2
\* Half of the sustained-duration requirement: an excursion can be observed
\* before, exactly at and after the moment the requirement is met.
TickMs == CPU_OVER_THRESHOLD_DURATION \div 2
\* Date.now() when the monitor starts: any value that is at least
\* ALERT_COOLDOWN after the epoch behaves like today's date.
StartTime == 2 * ALERT_COOLDOWN

\* ---------------------------------------------------------------- JS values
Null == [null |-> TRUE]
NaN == [nan |-> TRUE]
Num(n) == [num |-> n]
IsNum(x) == "num" \in DOMAIN x

\* a - b on numbers or NaN
Sub(a, b) == IF IsNum(a) /\ IsNum(b) THEN Num(a.num - b.num) ELSE NaN
\* a >= b on numbers or NaN: every comparison with NaN is false
GE(a, b) == IsNum(a) /\ IsNum(b) /\ a.num >= b.num
\* !x
Falsy(x) == x = Null \/ x = NaN \/ x = Num(0)

\* Number.prototype.toString on a non-negative integer: its decimal digits
Digit(d) == <<"0", "1", "2", "3", "4", "5", "6", "7", "8", "9">>[d + 1]
RECURSIVE toString(_)
toString(n) == IF n < 10 THEN <<Digit(n)>> ELSE toString(n \div 10) \o <<Digit(n % 10)>>

\* parseInt: the number written by the longest prefix of decimal digits,
\* NaN when the text does not start with a digit
DigitChars == {"0", "1", "2", "3", "4", "5", "6", "7", "8", "9"}
DigitValues == [ch \in DigitChars |-> CHOOSE d \in 0..9 : Digit(d) = ch]
DigitValue(ch) == DigitValues[ch]
IsDigit(ch) == ch \in DigitChars
RECURSIVE ParseDigits(_, _)
ParseDigits(s, acc) ==
    IF s = <<>> \/ ~IsDigit(Head(s)) THEN acc
    ELSE ParseDigits(Tail(s), 10 * acc + DigitValue(Head(s)))
parseInt(s) == IF s = <<>> \/ ~IsDigit(Head(s)) THEN NaN ELSE Num(ParseDigits(s, 0))

\* ---------------------------------------------------------------- providers
\* What execSync does: it throws (the command failed), or it returns the
\* command's output.  An output is its lines, each line its tokens (the runs
\* of non-blank characters, as split(/\s+/) finds them in the trimmed line),
\* each token its characters; nl says whether the output ends with a newline.
Thrown == [thrown |-> TRUE]
Output(ls, newline) == [lines |-> ls, nl |-> newline]

\* JS values of the providers: undefined, a string, an array
Undefined == [undefined |-> TRUE]
Str(chars) == [str |-> chars]
List(items) == [list |-> items]
EmptyList == List(<<>>)

\* faulty variant: no try/catch, the exception propagates
CatchNothing(value, sentinel) == value

\* try { ... } catch { return sentinel }
Catch(value, sentinel) == IF value = Thrown THEN sentinel ELSE value

\* the longest prefix of s made of characters of the set
RECURSIVE PrefixIn(_, _)
PrefixIn(s, chars) ==
    IF s = <<>> \/ Head(s) \notin chars THEN <<>>
    ELSE <<Head(s)>> \o PrefixIn(Tail(s), chars)

RECURSIVE StripZeros(_)
StripZeros(f) ==
    IF f = <<>> THEN <<>>
    ELSE IF f[Len(f)] = "0" THEN StripZeros(SubSeq(f, 1, Len(f) - 1)) ELSE f

\* parseFloat on text without sign or exponent: the number written by the
\* longest prefix of the form digits[.digits], NaN when there is no digit.
\* A number with a fractional part keeps its decimals.
parseFloat(s) ==
    LET ip == PrefixIn(s, DigitChars)
        rest == SubSeq(s, Len(ip) + 1, Len(s))
        fp == IF rest # <<>> /\ Head(rest) = "." THEN PrefixIn(Tail(rest), DigitChars)
              ELSE <<>>
    IN  IF ip = <<>> /\ fp = <<>> THEN NaN
        ELSE IF StripZeros(fp) = <<>> THEN Num(ParseDigits(ip, 0))
        ELSE [num |-> ParseDigits(ip, 0), frac |-> StripZeros(fp)]

\* line.trim().split(/\s+/): the tokens, or one empty string for a blank line
Parts(l) == IF l = <<>> THEN << <<>> >> ELSE l
\* parts[k], k counted from 0
Part(parts, k) == IF k < Len(parts) THEN Str(parts[k + 1]) ELSE Undefined
\* output.trim().split('\n')
TrimmedLines(out) == IF out.lines = <<>> THEN << <<>> >> ELSE out.lines
\* output.split('\n')
SplitLines(out) == TrimmedLines(out) \o (IF out.nl THEN << <<>> >> ELSE <<>>)
\* output.trim().split(/\s+/)
RECURSIVE Flatten(_)
Flatten(ls) == IF ls = <<>> THEN <<>> ELSE Head(ls) \o Flatten(Tail(ls))
AllParts(out) == Parts(Flatten(out.lines))
\* the first token of output.trim(), where parseFloat stops at the latest
FirstToken(out) == Head(AllParts(out))

\* the body shared by getCpuUsage, getMemUsage and getSwapUsage
ScalarUsage(out) == Catch(IF out = Thrown THEN Thrown ELSE parseFloat(FirstToken(out)), Null)

getCpuUsage(out) == ScalarUsage(out)
getMemUsage(out) == ScalarUsage(out)
getSwapUsage(out) == ScalarUsage(out)

\* parts.join(' ')
RECURSIVE Join(_)
Join(parts) ==
    IF parts = <<>> THEN <<>>
    ELSE IF Len(parts) = 1 THEN parts[1]
    ELSE parts[1] \o <<" ">> \o Join(Tail(parts))

\* a row of ps aux, null when it has fewer than 11 fields
ProcessRow(parts) ==
    IF Len(parts) >= 11
    THEN [user |-> Str(parts[1]), pid |-> Str(parts[2]),
          cpu |-> parseFloat(parts[3]), mem |-> parseFloat(parts[4]),
          vsz |-> Str(parts[5]), rss |-> Str(parts[6]), tty |-> Str(parts[7]),
          stat |-> Str(parts[8]), start |-> Str(parts[9]), time |-> Str(parts[10]),
          command |-> Str(Join(SubSeq(parts, 11, Len(parts))))]
    ELSE Null
IsRow(r) == r # Null

\* the body shared by getTopCpuProcesses and getTopMemoryProcesses
TopProcesses(out) ==
    Catch(IF out = Thrown THEN Thrown
          ELSE LET ls == TrimmedLines(out)
               IN  List(SelectSeq([i \in 1..Len(ls) |-> ProcessRow(Parts(ls[i]))], IsRow)),
          EmptyList)

getTopCpuProcesses(out) == TopProcesses(out)
getTopMemoryProcesses(out) == TopProcesses(out)

\* memLine is undefined when the output has no second line, and
\* memLine.trim() then throws a TypeError
getDetailedMemoryInfo(out) ==
    Catch(IF out = Thrown THEN Thrown
          ELSE LET ls == SplitLines(out)
               IN  IF Len(ls) < 2 THEN Thrown
                   ELSE LET parts == Parts(ls[2])
                        IN  [total |-> Part(parts, 1), used |-> Part(parts, 2),
                             free |-> Part(parts, 3), shared |-> Part(parts, 4),
                             cache |-> Part(parts, 5), available |-> Part(parts, 6)],
          Null)

getDetailedSwapInfo(out) ==
    Catch(IF out = Thrown THEN Thrown
          ELSE LET ls == SplitLines(out)
               IN  IF Len(ls) < 3 THEN Thrown
                   ELSE LET parts == Parts(ls[3])
                        IN  [total |-> Part(parts, 1), used |-> Part(parts, 2),
                             free |-> Part(parts, 3)],
          Null)

\* /load average: ([\d.]+), ([\d.]+), ([\d.]+)/ at token i of a line: the
\* tokens `load`, `average:`, two numbers each followed by a comma, and a
\* token that starts with a number
NumberChars == DigitChars \cup {"."}
Capture(token) == PrefixIn(token, NumberChars)
CaptureThenComma(token) ==
    Capture(token) # <<>> /\ token = Capture(token) \o <<",">>
LoadMatchAt(l, i) ==
    /\ i + 4 <= Len(l)
    /\ l[i] = <<"l", "o", "a", "d">>
    /\ l[i + 1] = <<"a", "v", "e", "r", "a", "g", "e", ":">>
    /\ CaptureThenComma(l[i + 2])
    /\ CaptureThenComma(l[i + 3])
    /\ Capture(l[i + 4]) # <<>>
LoadMatches(out) ==
    {m \in UNION {{k} \X (1..Len(out.lines[k])) : k \in 1..Len(out.lines)} :
        LoadMatchAt(out.lines[m[1]], m[2])}
\* the leftmost match
FirstMatch(ms) ==
    CHOOSE m \in ms : \A n \in ms : m[1] < n[1] \/ (m[1] = n[1] /\ m[2] <= n[2])

getSystemLoad(out) ==
    Catch(IF out = Thrown THEN Thrown
          ELSE IF LoadMatches(out) = {} THEN Null
          ELSE LET m == FirstMatch(LoadMatches(out))
                   l == out.lines[m[1]]
               IN  [min1 |-> parseFloat(Capture(l[m[2] + 2])),
                    min5 |-> parseFloat(Capture(l[m[2] + 3])),
                    min15 |-> parseFloat(Capture(l[m[2] + 4]))],
          Null)

\* output.trim()
getUptime(out) == Catch(IF out = Thrown THEN Thrown ELSE [text |-> out.lines], Null)

getDiskUsage(out) ==
    Catch(IF out = Thrown THEN Thrown
          ELSE LET parts == AllParts(out)
               IN  [filesystem |-> Part(parts, 0), size |-> Part(parts, 1),
                    used |-> Part(parts, 2), available |-> Part(parts, 3),
                    usagePercent |-> Part(parts, 4), mountpoint |-> Part(parts, 5)],
          Null)

\* the lines the outputs are made of
\* `90`: what the awk pipelines of the scalar providers print
PercentLine ==
    <<<<"9", "0">>>>
\* `malformed output`
MalformedLine ==
    <<<<"m", "a", "l", "f", "o", "r", "m", "e", "d">>,
      <<"o", "u", "t", "p", "u", "t">>>>
\* `root 1 12.5 3.2 1000 800 ? S 10:00 0:01 node`: a row of ps aux
PsRow ==
    <<<<"r", "o", "o", "t">>,
      <<"1">>,
      <<"1", "2", ".", "5">>,
      <<"3", ".", "2">>,
      <<"1", "0", "0", "0">>,
      <<"8", "0", "0">>,
      <<"?">>,
      <<"S">>,
      <<"1", "0", ":", "0", "0">>,
      <<"0", ":", "0", "1">>,
      <<"n", "o", "d", "e">>>>
\* `total used free`: the header row of free -h
FreeHeader ==
    <<<<"t", "o", "t", "a", "l">>,
      <<"u", "s", "e", "d">>,
      <<"f", "r", "e", "e">>>>
\* `Mem: 15Gi 12Gi 1Gi 0Gi 2Gi 3Gi`: the second row of free -h
FreeMemRow ==
    <<<<"M", "e", "m", ":">>,
      <<"1", "5", "G", "i">>,
      <<"1", "2", "G", "i">>,
      <<"1", "G", "i">>,
      <<"0", "G", "i">>,
      <<"2", "G", "i">>,
      <<"3", "G", "i">>>>
\* `Swap: 2Gi 1Gi 1Gi`: the third row of free -h
FreeSwapRow ==
    <<<<"S", "w", "a", "p", ":">>,
      <<"2", "G", "i">>,
      <<"1", "G", "i">>,
      <<"1", "G", "i">>>>
\* `up 2 days, load average: 1.25, 1.15, 0.95`: what uptime prints
UptimeLine ==
    <<<<"u", "p">>,
      <<"2">>,
      <<"d", "a", "y", "s", ",">>,
      <<"l", "o", "a", "d">>,
      <<"a", "v", "e", "r", "a", "g", "e", ":">>,
      <<"1", ".", "2", "5", ",">>,
      <<"1", ".", "1", "5", ",">>,
      <<"0", ".", "9", "5">>>>
\* `up 2 days`: what uptime -p prints
UptimePrettyLine ==
    <<<<"u", "p">>,
      <<"2">>,
      <<"d", "a", "y", "s">>>>
\* `/dev/sda1 100G 75G 25G 79% /`: the last row of df -h /
DfRow ==
    <<<<"/", "d", "e", "v", "/", "s", "d", "a", "1">>,
      <<"1", "0", "0", "G">>,
      <<"7", "5", "G">>,
      <<"2", "5", "G">>,
      <<"7", "9", "%">>,
      <<"/">>>>

OutputLines ==
    {PercentLine, MalformedLine, PsRow, FreeHeader, FreeMemRow, FreeSwapRow, UptimeLine,
     UptimePrettyLine, DfRow}

\* the outputs of at most MaxLines lines
LinesUpTo(n) == UNION {[1..k -> OutputLines] : k \in 0..n}
ExecOutcomes ==
    {Thrown} \cup {Output(ls, newline) : ls \in LinesUpTo(MaxLines), newline \in BOOLEAN}

\* 'malformed output', the output the repository's tests call malformed
MalformedOutput == Output(<<MalformedLine>>, FALSE)

\* ---------------------------------------------------------------- formatting
\* faulty variant: the command is cut at 50 characters and the marker appended
ShortCommandCutAtLimit(command) ==
    IF Len(command) > 50 THEN SubSeq(command, 1, 50) \o <<".", ".", ".">> ELSE command

\* shortCommand: command.substring(0, 47) + '...' when it is longer than 50
ShortCommand(command) ==
    IF Len(command) > 50 THEN SubSeq(command, 1, 47) \o <<".", ".", ".">> ELSE command

\* one entry of the list: the template string of line 220, field by field
FormatEntry(proc, index, kind) ==
    [index |-> index,
     command |-> ShortCommand(proc.command.str),
     pid |-> proc.pid, user |-> proc.user,
     usage |-> IF kind = "cpu" THEN [label |-> "CPU", percent |-> proc.cpu]
               ELSE [label |-> "Memory", percent |-> proc.mem],
     rss |-> proc.rss]

NoProcessesFound == [text |-> "No processes found"]

\* faulty variant: an empty list is rendered as no entry at all
formatProcessListNullOnly(procs, kind) ==
    IF procs = Null THEN NoProcessesFound
    ELSE [entries |-> [i \in 1..Len(procs.list) |-> FormatEntry(procs.list[i], i, kind)]]

\* formatProcessList: the entries, joined by newlines
formatProcessList(procs, kind) ==
    IF procs = Null \/ procs = Undefined \/ Len(procs.list) = 0 THEN NoProcessesFound
    ELSE [entries |-> [i \in 1..Len(procs.list) |-> FormatEntry(procs.list[i], i, kind)]]

\* the processes given to formatProcessList: commands of the lengths around
\* the limit, among them the 80 characters of the repository's test
CommandLengths == {1, 47, 49, 50, 51, 80}
CommandOfLength(n) == [i \in 1..n |-> Digit(i % 10)]
ProcessWithCommand(n) ==
    [user |-> Str(<<"u", "s", "e", "r", "1">>), pid |-> Str(<<"1", "2", "3", "4">>),
     cpu |-> parseFloat(<<"2", "5", ".", "5">>), mem |-> parseFloat(<<"1", "0", ".", "2">>),
     rss |-> Str(<<"8", "9", "0", "1", "2">>), command |-> Str(CommandOfLength(n))]
Processes == {ProcessWithCommand(n) : n \in CommandLengths}
ProcessLists ==
    {Null} \cup {List(ps) : ps \in UNION {[1..k -> Processes] : k \in 0..MaxProcesses}}
Kinds == {"cpu", "memory"}

\* ---------------------------------------------------------------- startup
\* process.env: a variable is unset or holds a string
Unset == [unset |-> TRUE]
\* !SLACK_WEBHOOK_URL || SLACK_WEBHOOK_URL === 'YOUR_SLACK_WEBHOOK_URL_HERE'
PLACEHOLDER_URL == Str(<<"YOUR_SLACK_WEBHOOK_URL_HERE">>)
\* faulty variant: the placeholder is taken for a URL
WebhookMissingFalsyOnly(url) == url = Unset \/ url = Str(<<>>)

WebhookMissing(url) == url = Unset \/ url = Str(<<>>) \/ url = PLACEHOLDER_URL
WebhookUrl == Str(<<"https://hooks.slack.com/services/T/B/X">>)
WebhookValues == {Unset, Str(<<>>), PLACEHOLDER_URL, WebhookUrl}

ConfigNames ==
    {"CPU_THRESHOLD", "MEM_THRESHOLD", "SWAP_THRESHOLD", "CPU_OVER_THRESHOLD_DURATION",
     "CHECK_INTERVAL", "ALERT_COOLDOWN"}
\* a value other than the default, for each configuration variable
OtherValues ==
    [CPU_THRESHOLD |-> CPU_THRESHOLD - 5, MEM_THRESHOLD |-> MEM_THRESHOLD - 10,
     SWAP_THRESHOLD |-> SWAP_THRESHOLD - 10,
     CPU_OVER_THRESHOLD_DURATION |-> CPU_OVER_THRESHOLD_DURATION \div 5,
     CHECK_INTERVAL |-> CHECK_INTERVAL \div 5, ALERT_COOLDOWN |-> ALERT_COOLDOWN \div 3]
\* the environments: the webhook URL and, each set or not, the six variables
Environment(url, set) ==
    [name \in ConfigNames \cup {"SLACK_WEBHOOK_URL"} |->
        IF name = "SLACK_WEBHOOK_URL" THEN url
        ELSE IF name \in set THEN Str(toString(OtherValues[name])) ELSE Unset]
Environments == {Environment(url, set) : url \in WebhookValues, set \in SUBSET ConfigNames}
\* the environment of a configured installation
DefaultEnvironment == Environment(WebhookUrl, {})

\* the constants of lines 17-22: literals, whatever the environment holds
Configuration(e) ==
    [CPU_THRESHOLD |-> CPU_THRESHOLD, MEM_THRESHOLD |-> MEM_THRESHOLD,
     SWAP_THRESHOLD |-> SWAP_THRESHOLD,
     CPU_OVER_THRESHOLD_DURATION |-> CPU_OVER_THRESHOLD_DURATION,
     CHECK_INTERVAL |-> CHECK_INTERVAL, ALERT_COOLDOWN |-> ALERT_COOLDOWN,
     SLACK_WEBHOOK_URL |-> e.SLACK_WEBHOOK_URL]
NotLoaded == [loaded |-> FALSE]

\* ---------------------------------------------------------------- state
VARIABLES
    clock,                  \* Date.now()
    cpuOverThresholdSince,  \* module-level: Null or Num(time)
    lastAlertFile,          \* LAST_ALERT_FILE: [exists, content]
    inFlight,               \* number of pending axios.post promises
    pc,                     \* "idle", or "checked" right after a cycle returned
    cpu, mem, swap,         \* the samples of the cycle that just returned
    alerts,                 \* its alert list
    lastAlertTime,          \* what its getLastAlertTime() returned, Null when not called
    readFailed,             \* whether that call took its catch branch
    message,                \* the message it handed to axios.post, Null when none
    sinceBefore,            \* cpuOverThresholdSince when it was called
    context,                \* what the context providers returned to sendSlackAlert in it
    running,                \* the process is alive
    \* history of the run, kept for the properties only; interrupted is
    \* recorded by SpecExcursions, lastDispatch by SpecReliable and sendFailed
    \* by SpecSends
    runStart,               \* `now` of the first cycle of the current >= threshold run
    interrupted,            \* the latest interruption of an excursion: [start |-> `now` of
                            \* the excursion's first cycle, at |-> `now` of the cycle with
                            \* CPU below threshold or absent that ended it], else Null
    recorded,               \* latest timestamp written by setLastAlertTime
    lastDispatch,           \* `now` of the latest cycle that started a POST
    sendFailed,             \* the POST that completed last was rejected
    \* a round of provider calls under observation (SpecProviders)
    execOutcome,            \* what execSync does in the round
    returned,               \* what each provider returned, NotCalled before the round
    \* the start of the process
    env,                    \* process.env
    config,                 \* the configuration constants, NotLoaded before they are set
    timer,                  \* setInterval(checkSystemHealth, CHECK_INTERVAL) was called
    exitStatus,             \* the status the process exited with, Null while it runs
    firstCycle,             \* whether the latest cycle was the one the startup code
                            \* called (recorded by SpecStartup and SpecRestart)
    \* a call of formatProcessList under observation (SpecFormat)
    processes, type,        \* its arguments
    formatted,              \* what it returned, NotCalled before the call
    \* the disk monitor, a process of its own (SpecDisk)
    diskNow,                \* Date.now()
    diskFile,               \* its LAST_ALERT_FILE (.last_disk_alert): [exists, content]
    diskInFlight,           \* number of pending axios.post promises
    diskPc,                 \* "idle", or "checked" right after checkDiskUsage returned
    diskUsage,              \* the reading of the cycle that just returned
    diskLastAlertTime,      \* what its getLastAlertTime() returned, Null when not called
    diskPosted              \* whether it called sendSlackAlert

vars == <<clock, cpuOverThresholdSince, lastAlertFile, inFlight, pc, cpu, mem, swap,
          alerts, lastAlertTime, readFailed, message, sinceBefore, context, running,
          runStart, interrupted, recorded, lastDispatch, sendFailed, execOutcome, returned,
          env, config, timer, exitStatus, firstCycle, processes, type, formatted,
          diskNow, diskFile, diskInFlight, diskPc, diskUsage, diskLastAlertTime, diskPosted>>

monitorVars ==
    <<clock, cpuOverThresholdSince, lastAlertFile, inFlight, pc, cpu, mem, swap,
      alerts, lastAlertTime, readFailed, message, sinceBefore, context, running,
      runStart, interrupted, recorded, lastDispatch, sendFailed>>
providerVars == <<execOutcome, returned>>
startupVars == <<env, config, timer, exitStatus, firstCycle>>
formatVars == <<processes, type, formatted>>
\* the calls under observation, which are no part of a run of the monitor
diskVars ==
    <<diskNow, diskFile, diskInFlight, diskPc, diskUsage, diskLastAlertTime, diskPosted>>
detachedVars == <<providerVars, formatVars, diskVars>>
\* what the handlers of the running monitor never touch
asideVars == <<detachedVars, startupVars>>
NotCalled == [called |-> FALSE]

\* ---------------------------------------------------------------- inputs
\* What getCpuUsage, getMemUsage and getSwapUsage can return: null (the
\* command threw), NaN (parseFloat of unparsable output) or a percentage.
\* For memory and swap the unparsable output is left out.
PercentOutput(n) == Output(<< <<toString(n)>> >>, TRUE)
CpuSamples ==
    {getCpuUsage(out) : out \in {Thrown, Output(<<>>, FALSE), PercentOutput(CPU_THRESHOLD - 1),
                                 PercentOutput(CPU_THRESHOLD)}}
MemSamples ==
    {getMemUsage(out) : out \in {Thrown, PercentOutput(MEM_THRESHOLD - 1),
                                 PercentOutput(MEM_THRESHOLD)}}
SwapSamples ==
    {getSwapUsage(out) : out \in {Thrown, PercentOutput(SWAP_THRESHOLD - 1),
                                  PercentOutput(SWAP_THRESHOLD)}}

\* fs.writeFileSync: it succeeds, it throws before touching the file (the
\* open fails), or it throws after the open truncated the file (the write
\* fails, e.g. on a full disk).
WriteOutcomes == {"ok", "open_throws", "write_throws"}

\* What getUptime, getSystemLoad and getDiskUsage return to sendSlackAlert:
\* null, or the parsed value.
UptimeValues == {getUptime(out) : out \in {Thrown, Output(<<UptimePrettyLine>>, TRUE)}}
LoadValues == {getSystemLoad(out) : out \in {Thrown, Output(<<UptimeLine>>, TRUE)}}
DiskValues == {getDiskUsage(out) : out \in {Thrown, Output(<<DfRow>>, TRUE)}}
Contexts == [uptime : UptimeValues, load : LoadValues, disk : DiskValues]
\* every context provider succeeds
FullContext == CHOOSE ctx \in Contexts : ctx.uptime # Null /\ ctx.load # Null /\ ctx.disk # Null

AbsentFile == [exists |-> FALSE, content |-> <<>>]
FileWith(text) == [exists |-> TRUE, content |-> text]

\* LAST_ALERT_FILE when the monitor starts: never written, left empty by a
\* write that failed, or written by an earlier run whose cooldown ends two
\* ticks after the start.
InitialFiles ==
    {AbsentFile, FileWith(<<>>), FileWith(toString(StartTime + 2 * TickMs - ALERT_COOLDOWN))}

\* ---------------------------------------------------------------- persistence
\* faulty variant: the persisted timestamp is never read back
getLastAlertTimeNeverRead(file, readThrows) == Num(0)

\* faulty variant: the timestamp written is the `now` of the cycle that
\* started the latest POST, not the time of the write
setLastAlertTimeOfCycle(file, now, outcome) ==
    CASE outcome = "ok" -> FileWith(toString(IF lastDispatch = Null THEN now
                                                                    ELSE lastDispatch.num))
      [] outcome = "open_throws" -> file
      [] outcome = "write_throws" -> FileWith(<<>>)

getLastAlertTime(file, readThrows) ==
    IF file.exists /\ ~readThrows THEN parseInt(file.content) ELSE Num(0)

setLastAlertTime(file, now, outcome) ==
    CASE outcome = "ok" -> FileWith(toString(now))
      [] outcome = "open_throws" -> file
      [] outcome = "write_throws" -> FileWith(<<>>)

\* ---------------------------------------------------------------- evaluation
\* the titles of the three alert descriptors (without their emoji)
CpuTitle == "High CPU Usage Detected"
MemTitle == "High Memory Usage Detected"
SwapTitle == "High Swap Usage Detected"

CpuOver(c) == c # Null /\ GE(c, Num(CPU_THRESHOLD))

\* faulty variant: the else branch does not reset the timer
CpuSinceNeverReset(c, now, since) ==
    IF c # Null /\ GE(c, Num(CPU_THRESHOLD)) THEN (IF Falsy(since) THEN now ELSE since)
    ELSE since

\* faulty variant: an absent sample keeps the timer instead of resetting it
CpuSinceKeptWhenAbsent(c, now, since) ==
    IF c # Null /\ GE(c, Num(CPU_THRESHOLD)) THEN (IF Falsy(since) THEN now ELSE since)
    ELSE IF c = Null THEN since ELSE Null

\* faulty variant: every at-or-above-threshold cycle stamps the timer anew
CpuSinceRestamped(c, now, since) ==
    IF c # Null /\ GE(c, Num(CPU_THRESHOLD)) THEN now ELSE Null

\* cpuOverThresholdSince after the CPU branch
CpuSince(c, now, since) ==
    IF CpuOver(c) THEN (IF Falsy(since) THEN now ELSE since) ELSE Null

\* faulty variant: strictly longer than the required duration
CpuSustainedStrict(now, since) ==
    LET d == Sub(now, since) IN IsNum(d) /\ d.num > CPU_OVER_THRESHOLD_DURATION

\* faulty variant: no duration required
CpuSustainedAtOnce(now, since) == GE(Sub(now, since), Num(0))

CpuSustained(now, since) == GE(Sub(now, since), Num(CPU_OVER_THRESHOLD_DURATION))

CpuAlerts(c, now, since) ==
    IF CpuOver(c) /\ CpuSustained(now, since)
    THEN <<[title |-> CpuTitle,
            value |-> [usage |-> c, threshold |-> CPU_THRESHOLD,
                       duration |-> Sub(now, since)]]>>
    ELSE <<>>

\* faulty variant: strictly above the threshold
MemOverStrict(m) == IsNum(m) /\ m.num > MEM_THRESHOLD

MemOver(m) == m # Null /\ GE(m, Num(MEM_THRESHOLD))

\* faulty variant: the threshold test is lost
MemAlertsWhenPresent(m) ==
    IF m # Null
    THEN <<[title |-> MemTitle, value |-> [usage |-> m, threshold |-> MEM_THRESHOLD]]>>
    ELSE <<>>

MemAlerts(m) ==
    IF MemOver(m)
    THEN <<[title |-> MemTitle,
            value |-> [usage |-> m, threshold |-> MEM_THRESHOLD]]>>
    ELSE <<>>

SwapOver(s) == s # Null /\ GE(s, Num(SWAP_THRESHOLD))

SwapAlerts(s) ==
    IF SwapOver(s)
    THEN <<[title |-> SwapTitle,
            value |-> [usage |-> s, threshold |-> SWAP_THRESHOLD]]>>
    ELSE <<>>

\* faulty variant: strictly longer than the cooldown
CooldownElapsedStrict(now, last) ==
    LET d == Sub(now, last) IN IsNum(d) /\ d.num > ALERT_COOLDOWN

CooldownElapsed(now, last) == GE(Sub(now, last), Num(ALERT_COOLDOWN))

\* faulty variant: the gate is entered with an empty list too
HasAlertsOrNone(as) == Len(as) >= 0

\* alerts.length > 0
HasAlerts(as) == Len(as) > 0

\* faulty variant: one POST for each descriptor
PostsStartedPerAlert(as, sends) == IF sends THEN Len(as) ELSE 0

\* the number of axios.post calls of a cycle
PostsStarted(as, sends) == IF sends THEN 1 ELSE 0

\* faulty variant: the three context lines whatever the providers returned
MessageTextAllLines(ctx) ==
    <<[line |-> "System Health Alert on hostname"],
      [line |-> "Uptime", value |-> ctx.uptime],
      [line |-> "Load", value |-> ctx.load],
      [line |-> "Root Disk", value |-> ctx.disk]>>

\* messageText of sendSlackAlert, line by line: the header, then the line of
\* each context value that is truthy
MessageText(ctx) ==
    <<[line |-> "System Health Alert on hostname"]>>
    \o (IF ctx.uptime # Null THEN <<[line |-> "Uptime", value |-> ctx.uptime]>> ELSE <<>>)
    \o (IF ctx.load # Null THEN <<[line |-> "Load", value |-> ctx.load]>> ELSE <<>>)
    \o (IF ctx.disk # Null THEN <<[line |-> "Root Disk", value |-> ctx.disk]>> ELSE <<>>)

\* faulty variant: the sections are in the reverse order of the descriptors
BuildMessageReversed(as, ctx) ==
    [text |-> MessageText(ctx),
     attachments |->
        [i \in 1..Len(as) |->
            [color |-> "danger", title |-> as[Len(as) + 1 - i].title,
             text |-> as[Len(as) + 1 - i].value]]]

\* the message sendSlackAlert hands to axios.post
BuildMessage(as, ctx) ==
    [text |-> MessageText(ctx),
     attachments |->
        [i \in 1..Len(as) |-> [color |-> "danger", title |-> as[i].title, text |-> as[i].value]]]

\* ---------------------------------------------------------------- actions
InitMonitor ==
    /\ clock = StartTime
    /\ cpuOverThresholdSince = Null
    /\ lastAlertFile \in InitialFiles
    /\ inFlight = 0
    /\ pc = "idle"
    /\ cpu = Null /\ mem = Null /\ swap = Null
    /\ alerts = <<>>
    /\ lastAlertTime = Null
    /\ readFailed = FALSE
    /\ message = Null
    /\ sinceBefore = Null
    /\ context = Null
    /\ running = TRUE
    /\ sendFailed = FALSE
    /\ runStart = Null
    /\ interrupted = Null
    /\ recorded = Null
    /\ lastDispatch = Null

\* no round of provider calls is under observation
NoProviderRound == execOutcome = Thrown /\ returned = NotCalled
\* no call of formatProcessList is under observation
NoFormatCall == processes = Null /\ type = "cpu" /\ formatted = NotCalled
\* the disk monitor is not under observation
NoDiskMonitor ==
    /\ diskNow = StartTime
    /\ diskFile = AbsentFile
    /\ diskInFlight = 0
    /\ diskPc = "idle"
    /\ diskUsage = Null
    /\ diskLastAlertTime = Null
    /\ diskPosted = FALSE
Detached == NoProviderRound /\ NoFormatCall /\ NoDiskMonitor

\* the process has started in a configured installation: the timer is installed
Started ==
    /\ env = DefaultEnvironment
    /\ config = Configuration(DefaultEnvironment)
    /\ timer = TRUE
    /\ exitStatus = Null
    /\ firstCycle = FALSE

\* The monitor has started; no round of provider calls is under observation.
Init == InitMonitor /\ Detached /\ Started

\* The frame of checkSystemHealth is gone once anything else runs.
ResetLocals ==
    /\ pc' = "idle"
    /\ cpu' = Null /\ mem' = Null /\ swap' = Null
    /\ alerts' = <<>>
    /\ lastAlertTime' = Null
    /\ readFailed' = FALSE
    /\ message' = Null
    /\ sinceBefore' = Null
    /\ context' = Null

\* One call of checkSystemHealth, up to and including the synchronous part of
\* sendSlackAlert (the message is built and axios.post is called), for the
\* samples c, m, s; readThrows: fs.readFileSync throws; ctx: what the context
\* providers return when sendSlackAlert calls them.  The call comes from the
\* event loop (the timer), after the previous frame has returned.
\* faulty variant: a dispatch starts the CPU timer anew
SinceResetOnDispatch(since, sends) == IF sends THEN Null ELSE since

\* lines 351-357 assign nothing to cpuOverThresholdSince: it leaves the cycle
\* as the CPU branch set it, whether or not sendSlackAlert is called
SinceAfterDispatch(since, sends) == since

\* faulty variant: the cycle waits until no POST is pending
Awaited(pending) == pending = 0

\* sendSlackAlert(alerts) is called without await and the timer callback is
\* synchronous: a cycle runs whatever the number of pending POSTs is
NotAwaited(pending) == TRUE

Cycle(c, m, s, readThrows, ctx) ==
        LET now == Num(clock)
            since == CpuSince(c, now, cpuOverThresholdSince)
            as == CpuAlerts(c, now, since) \o MemAlerts(m) \o SwapAlerts(s)
            reads == HasAlerts(as)
            last == IF reads THEN getLastAlertTime(lastAlertFile, readThrows) ELSE Null
            sends == reads /\ CooldownElapsed(now, last)
        IN  /\ running
            /\ pc = "idle"
            /\ NotAwaited(inFlight)
            /\ readThrows => reads /\ lastAlertFile.exists
            /\ ~sends => ctx = FullContext
            /\ inFlight + PostsStarted(as, sends) <= MaxInFlight
            /\ pc' = "checked"
            /\ cpu' = c /\ mem' = m /\ swap' = s
            /\ sinceBefore' = cpuOverThresholdSince
            /\ cpuOverThresholdSince' = SinceAfterDispatch(since, sends)
            /\ alerts' = as
            /\ lastAlertTime' = last
            /\ readFailed' = readThrows
            /\ message' = IF sends THEN BuildMessage(as, ctx) ELSE Null
            /\ context' = IF sends THEN ctx ELSE Null
            /\ inFlight' = inFlight + PostsStarted(as, sends)
            /\ runStart' = IF CpuOver(c) THEN (IF runStart = Null THEN now ELSE runStart)
                           ELSE Null
            /\ UNCHANGED <<clock, lastAlertFile, recorded, running, sendFailed>>
            /\ UNCHANGED detachedVars

checkSystemHealth ==
    \E c \in CpuSamples, m \in MemSamples, s \in SwapSamples, readThrows \in BOOLEAN :
        /\ Cycle(c, m, s, readThrows, FullContext)
        /\ UNCHANGED <<interrupted, lastDispatch>>
        /\ UNCHANGED startupVars

\* axios.post resolves: the continuation of sendSlackAlert logs and calls
\* setLastAlertTime, which writes Date.now() of that moment.
Resolve(outcome) ==
    /\ running
    /\ inFlight > 0
    /\ inFlight' = inFlight - 1
    /\ lastAlertFile' = setLastAlertTime(lastAlertFile, clock, outcome)
    /\ recorded' = IF outcome = "ok" THEN Num(clock) ELSE recorded
    /\ ResetLocals
    /\ UNCHANGED asideVars
    /\ UNCHANGED <<clock, cpuOverThresholdSince, runStart, interrupted, lastDispatch, running>>

PostResolves == (\E outcome \in WriteOutcomes : Resolve(outcome)) /\ UNCHANGED sendFailed

\* faulty variant: the timestamp is written whatever the POST's outcome
PostRejectsAndRecords ==
    /\ running
    /\ inFlight > 0
    /\ inFlight' = inFlight - 1
    /\ lastAlertFile' = FileWith(toString(clock))
    /\ ResetLocals
    /\ UNCHANGED asideVars
    /\ UNCHANGED <<clock, cpuOverThresholdSince, runStart, interrupted, recorded,
                   lastDispatch, running, sendFailed>>

\* faulty variant: no catch block, the rejection is unhandled and ends the process
RejectsUnhandled ==
    /\ running
    /\ inFlight > 0
    /\ inFlight' = inFlight - 1
    /\ running' = FALSE
    /\ ResetLocals
    /\ UNCHANGED asideVars
    /\ UNCHANGED <<clock, cpuOverThresholdSince, lastAlertFile, runStart, interrupted,
                   recorded, lastDispatch>>

\* axios.post rejects: the catch block of sendSlackAlert logs the error and
\* the promise of sendSlackAlert resolves.
Rejects ==
    /\ running
    /\ inFlight > 0
    /\ inFlight' = inFlight - 1
    /\ ResetLocals
    /\ UNCHANGED asideVars
    /\ UNCHANGED <<clock, cpuOverThresholdSince, lastAlertFile, runStart, interrupted,
                   recorded, lastDispatch, running>>

PostRejects == Rejects /\ UNCHANGED sendFailed

\* Time passes.
Tick ==
    /\ clock < StartTime + MaxTicks * TickMs
    /\ clock' = clock + TickMs
    /\ ResetLocals
    /\ UNCHANGED asideVars
    /\ UNCHANGED <<cpuOverThresholdSince, lastAlertFile, inFlight, runStart, interrupted,
                   recorded, lastDispatch, running, sendFailed>>

\* The monitor with the failures of the read, of the write and of the POST;
\* the context providers succeed (SpecContext lets them fail).
Next == checkSystemHealth \/ PostResolves \/ PostRejects \/ Tick

Spec == Init /\ [][Next]_vars

\* The monitor and its timer: setInterval keeps calling checkSystemHealth, so
\* a cycle that can run does run.  Nothing is assumed about the POSTs: one may
\* stay pending for ever.
SpecTimer == Spec /\ WF_vars(checkSystemHealth)

\* The same monitor, with the interruptions of CPU excursions recorded (and
\* every context provider succeeding).
checkSystemHealthExcursions ==
    \E c \in CpuSamples, m \in MemSamples, s \in SwapSamples, readThrows \in BOOLEAN :
        /\ Cycle(c, m, s, readThrows, FullContext)
        /\ interrupted' = IF ~CpuOver(c) /\ runStart # Null
                          THEN [start |-> runStart.num, at |-> clock]
                          ELSE interrupted
        /\ UNCHANGED lastDispatch
        /\ UNCHANGED startupVars

NextExcursions == checkSystemHealthExcursions \/ PostResolves \/ PostRejects \/ Tick

SpecExcursions == Init /\ [][NextExcursions]_vars

\* The monitor when nothing fails: every read and write of LAST_ALERT_FILE
\* succeeds and every POST resolves.  The cycle of the latest dispatch is
\* recorded.
checkSystemHealthReliable ==
    \E c \in CpuSamples, m \in MemSamples, s \in SwapSamples :
        /\ Cycle(c, m, s, FALSE, FullContext)
        /\ lastDispatch' = IF message' # Null THEN Num(clock) ELSE lastDispatch
        /\ UNCHANGED interrupted
        /\ UNCHANGED startupVars

PostResolvesReliable == Resolve("ok") /\ UNCHANGED sendFailed

NextReliable == checkSystemHealthReliable \/ PostResolvesReliable \/ Tick

SpecReliable == Init /\ [][NextReliable]_vars

\* The reliable monitor with its scheduling: the timer keeps calling
\* checkSystemHealth, time passes, and every pending POST resolves.
SpecAlerting ==
    /\ SpecReliable
    /\ WF_vars(checkSystemHealthReliable)
    /\ WF_vars(PostResolvesReliable)
    /\ WF_vars(Tick)

\* The same monitor, with the outcome of the POST that completed last recorded
\* (and every context provider succeeding).
checkSystemHealthSends ==
    \E c \in CpuSamples, m \in MemSamples, s \in SwapSamples, readThrows \in BOOLEAN :
        /\ Cycle(c, m, s, readThrows, FullContext)
        /\ UNCHANGED <<interrupted, lastDispatch>>
        /\ UNCHANGED startupVars

PostResolvesSends == (\E outcome \in WriteOutcomes : Resolve(outcome)) /\ sendFailed' = FALSE

PostRejectsSends == Rejects /\ sendFailed' = TRUE

NextSends == checkSystemHealthSends \/ PostResolvesSends \/ PostRejectsSends \/ Tick

SpecSends == Init /\ [][NextSends]_vars

\* The monitor when the context providers of sendSlackAlert may fail, one by
\* one (and every read and write of LAST_ALERT_FILE and every POST succeeds).
checkSystemHealthContext ==
    \E c \in CpuSamples, m \in MemSamples, s \in SwapSamples, ctx \in Contexts :
        /\ Cycle(c, m, s, FALSE, ctx)
        /\ UNCHANGED <<interrupted, lastDispatch>>
        /\ UNCHANGED startupVars

NextContext == checkSystemHealthContext \/ PostResolvesReliable \/ Tick

SpecContext == Init /\ [][NextContext]_vars

\* One round of the tests of the providers: execSync is given one behaviour
\* and every provider is called once.
InitProviders ==
    /\ InitMonitor
    /\ Started
    /\ lastAlertFile = AbsentFile
    /\ execOutcome \in ExecOutcomes
    /\ returned = NotCalled
    /\ NoFormatCall
    /\ NoDiskMonitor

CallProviders ==
    /\ returned = NotCalled
    /\ returned' =
          [getCpuUsage |-> getCpuUsage(execOutcome),
           getTopCpuProcesses |-> getTopCpuProcesses(execOutcome),
           getMemUsage |-> getMemUsage(execOutcome),
           getDetailedMemoryInfo |-> getDetailedMemoryInfo(execOutcome),
           getTopMemoryProcesses |-> getTopMemoryProcesses(execOutcome),
           getSwapUsage |-> getSwapUsage(execOutcome),
           getDetailedSwapInfo |-> getDetailedSwapInfo(execOutcome),
           getSystemLoad |-> getSystemLoad(execOutcome),
           getUptime |-> getUptime(execOutcome),
           getDiskUsage |-> getDiskUsage(execOutcome)]
    /\ UNCHANGED execOutcome
    /\ UNCHANGED monitorVars
    /\ UNCHANGED startupVars
    /\ UNCHANGED formatVars
    /\ UNCHANGED diskVars

NextProviders == CallProviders

SpecProviders == InitProviders /\ [][NextProviders]_vars

\* ---------------------------------------------------------------- disk monitor
\* The disk monitor (a second script, with its own LAST_ALERT_FILE): the
\* reading is parseInt of the command's output, null when the command throws.
getDiskUsagePercent(out) ==
    Catch(IF out = Thrown THEN Thrown ELSE parseInt(FirstToken(out)), Null)
DiskSamples ==
    {getDiskUsagePercent(out) : out \in {Thrown, Output(<<>>, FALSE),
                                         PercentOutput(DISK_THRESHOLD - 1),
                                         PercentOutput(DISK_THRESHOLD)}}

getLastDiskAlertTime(file, readThrows) ==
    IF file.exists /\ ~readThrows THEN parseInt(file.content) ELSE Num(0)

setLastDiskAlertTime(file, now, outcome) ==
    CASE outcome = "ok" -> FileWith(toString(now))
      [] outcome = "open_throws" -> file
      [] outcome = "write_throws" -> FileWith(<<>>)

\* faulty variant: strictly above the threshold
DiskOverStrict(d) == IsNum(d) /\ d.num > DISK_THRESHOLD

\* diskUsage >= DISK_THRESHOLD
DiskOver(d) == GE(d, Num(DISK_THRESHOLD))

\* now - lastAlertTime >= ALERT_COOLDOWN
DiskCooldownElapsed(now, last) == GE(Sub(now, last), Num(DISK_ALERT_COOLDOWN))

ResetDiskLocals ==
    /\ diskPc' = "idle"
    /\ diskUsage' = Null
    /\ diskLastAlertTime' = Null
    /\ diskPosted' = FALSE

InitDisk ==
    /\ InitMonitor
    /\ Started
    /\ NoProviderRound
    /\ NoFormatCall
    /\ lastAlertFile = AbsentFile
    /\ diskNow = StartTime
    /\ diskFile \in InitialFiles
    /\ diskInFlight = 0
    /\ diskPc = "idle"
    /\ diskUsage = Null
    /\ diskLastAlertTime = Null
    /\ diskPosted = FALSE

\* The two scripts may run side by side.  lastAlertFile is what the file
\* system holds at the path of the health monitor, diskFile what it holds at
\* .last_disk_alert; the disk monitor reads and writes the file its own
\* LAST_ALERT_FILE names.
DiskMonitorFile ==
    IF DISK_LAST_ALERT_FILE = LAST_ALERT_FILE THEN lastAlertFile ELSE diskFile

WriteDiskMonitorFile(file) ==
    IF DISK_LAST_ALERT_FILE = LAST_ALERT_FILE
    THEN lastAlertFile' = file /\ UNCHANGED diskFile
    ELSE diskFile' = file /\ UNCHANGED lastAlertFile

diskFrame ==
    /\ UNCHANGED <<clock, cpuOverThresholdSince, inFlight, pc, cpu, mem, swap,
                   alerts, lastAlertTime, readFailed, message, sinceBefore, context,
                   running, runStart, interrupted, recorded, lastDispatch, sendFailed>>
    /\ UNCHANGED startupVars
    /\ UNCHANGED providerVars
    /\ UNCHANGED formatVars

\* One call of checkDiskUsage, up to the axios.post call of sendSlackAlert.
checkDiskUsage ==
    \E d \in DiskSamples, readThrows \in BOOLEAN :
        LET now == Num(diskNow)
            reads == d # Null /\ DiskOver(d)
            last == IF reads THEN getLastDiskAlertTime(DiskMonitorFile, readThrows) ELSE Null
            sends == reads /\ DiskCooldownElapsed(now, last)
        IN  /\ diskPc = "idle"
            /\ readThrows => reads /\ DiskMonitorFile.exists
            /\ sends => diskInFlight < MaxInFlight
            /\ diskPc' = "checked"
            /\ diskUsage' = d
            /\ diskLastAlertTime' = last
            /\ diskPosted' = sends
            /\ diskInFlight' = IF sends THEN diskInFlight + 1 ELSE diskInFlight
            /\ UNCHANGED <<diskNow, diskFile, lastAlertFile>>
            /\ diskFrame

\* axios.post resolves: the timestamp is written
DiskPostResolves ==
    \E outcome \in WriteOutcomes :
        /\ diskInFlight > 0
        /\ diskInFlight' = diskInFlight - 1
        /\ WriteDiskMonitorFile(setLastDiskAlertTime(DiskMonitorFile, diskNow, outcome))
        /\ ResetDiskLocals
        /\ UNCHANGED diskNow
        /\ diskFrame

\* axios.post rejects: the catch block logs the error
DiskPostRejects ==
    /\ diskInFlight > 0
    /\ diskInFlight' = diskInFlight - 1
    /\ ResetDiskLocals
    /\ UNCHANGED <<diskNow, diskFile, lastAlertFile>>
    /\ diskFrame

DiskTick ==
    /\ diskNow < StartTime + MaxTicks * TickMs
    /\ diskNow' = diskNow + TickMs
    /\ ResetDiskLocals
    /\ UNCHANGED <<diskFile, diskInFlight, lastAlertFile>>
    /\ diskFrame

NextDisk == checkDiskUsage \/ DiskPostResolves \/ DiskPostRejects \/ DiskTick

SpecDisk == InitDisk /\ [][NextDisk]_vars

\* Both monitors side by side, on one machine: the clocks of the two
\* processes show the same time (the disk monitor's process is the one that
\* sees a new time last), the health monitor samples memory only and nothing
\* fails in it; the disk monitor's reads and writes may fail.
InitBoth ==
    /\ InitMonitor
    /\ Started
    /\ NoProviderRound
    /\ NoFormatCall
    /\ diskNow = StartTime
    /\ diskFile \in InitialFiles
    /\ diskInFlight = 0
    /\ diskPc = "idle"
    /\ diskUsage = Null
    /\ diskLastAlertTime = Null
    /\ diskPosted = FALSE

checkSystemHealthBoth ==
    \E m \in MemSamples :
        /\ Cycle(Null, m, Null, FALSE, FullContext)
        /\ UNCHANGED <<interrupted, lastDispatch>>
        /\ UNCHANGED startupVars

TickBoth == clock = diskNow /\ Tick

DiskTickBoth == diskNow < clock /\ DiskTick

NextBoth ==
    \/ checkSystemHealthBoth \/ PostResolvesReliable \/ TickBoth
    \/ checkDiskUsage \/ DiskPostResolves \/ DiskPostRejects \/ DiskTickBoth

SpecBoth == InitBoth /\ [][NextBoth]_vars

\* One call of formatProcessList.
InitFormat ==
    /\ InitMonitor
    /\ Started
    /\ NoProviderRound
    /\ NoDiskMonitor
    /\ lastAlertFile = AbsentFile
    /\ processes \in ProcessLists
    /\ type \in Kinds
    /\ formatted = NotCalled

CallFormat ==
    /\ formatted = NotCalled
    /\ formatted' = formatProcessList(processes, type)
    /\ UNCHANGED <<processes, type>>
    /\ UNCHANGED monitorVars
    /\ UNCHANGED startupVars
    /\ UNCHANGED providerVars
    /\ UNCHANGED diskVars

NextFormat == CallFormat

SpecFormat == InitFormat /\ [][NextFormat]_vars

\* The process loads the module in some environment: the configuration
\* constants are set.
InitConfiguration ==
    /\ InitMonitor
    /\ Detached
    /\ lastAlertFile = AbsentFile
    /\ env \in Environments
    /\ config = NotLoaded
    /\ timer = FALSE
    /\ exitStatus = Null
    /\ firstCycle = FALSE

LoadConfiguration ==
    /\ running
    /\ config = NotLoaded
    /\ config' = Configuration(env)
    /\ UNCHANGED <<env, timer, exitStatus, firstCycle>>
    /\ UNCHANGED monitorVars
    /\ UNCHANGED detachedVars

NextConfiguration == LoadConfiguration

SpecConfiguration == InitConfiguration /\ [][NextConfiguration]_vars

\* The start of the process and the run that follows (every read and write of
\* LAST_ALERT_FILE and every POST succeeds).
InitStartup ==
    /\ InitMonitor
    /\ Detached
    /\ env \in {Environment(url, {}) : url \in WebhookValues}
    /\ config = NotLoaded
    /\ timer = FALSE
    /\ exitStatus = Null
    /\ firstCycle = FALSE

\* lines 363-376: the check of the webhook URL, then the first cycle and
\* setInterval
Startup ==
    /\ running
    /\ config # NotLoaded
    /\ ~timer
    /\ IF WebhookMissing(config.SLACK_WEBHOOK_URL)
       THEN /\ exitStatus' = Num(1)
            /\ running' = FALSE
            /\ UNCHANGED <<clock, cpuOverThresholdSince, lastAlertFile, inFlight, pc, cpu, mem,
                           swap, alerts, lastAlertTime, readFailed, message, sinceBefore,
                           context, runStart, recorded, sendFailed, timer, firstCycle>>
            /\ UNCHANGED detachedVars
       ELSE /\ \E c \in CpuSamples, m \in MemSamples, s \in SwapSamples :
                  Cycle(c, m, s, FALSE, FullContext)
            /\ timer' = TRUE
            /\ firstCycle' = TRUE
            /\ UNCHANGED exitStatus
    /\ UNCHANGED <<env, config, interrupted, lastDispatch>>

\* a cycle started by the timer
checkSystemHealthTimer ==
    /\ timer
    /\ \E c \in CpuSamples, m \in MemSamples, s \in SwapSamples :
           Cycle(c, m, s, FALSE, FullContext)
    /\ firstCycle' = FALSE
    /\ UNCHANGED <<interrupted, lastDispatch>>
    /\ UNCHANGED <<env, config, timer, exitStatus>>

\* the SIGINT handler: process.exit(0)
Sigint ==
    /\ running
    /\ timer
    /\ exitStatus' = Num(0)
    /\ running' = FALSE
    /\ inFlight' = 0
    /\ ResetLocals
    /\ UNCHANGED <<clock, cpuOverThresholdSince, lastAlertFile, runStart, interrupted,
                   recorded, lastDispatch, sendFailed, env, config, timer, firstCycle>>
    /\ UNCHANGED detachedVars

NextStartup ==
    LoadConfiguration \/ Startup \/ checkSystemHealthTimer \/ PostResolvesReliable \/ Tick
        \/ Sigint

SpecStartup == InitStartup /\ [][NextStartup]_vars

\* faulty variant: the CPU timer survives the restart
RestartKeepsCpuTimer ==
    /\ ~running
    /\ running' = TRUE
    /\ exitStatus' = Null
    /\ config' = NotLoaded
    /\ timer' = FALSE
    /\ firstCycle' = FALSE
    /\ inFlight' = 0
    /\ ResetLocals
    /\ UNCHANGED <<clock, cpuOverThresholdSince, runStart, lastAlertFile, recorded,
                   interrupted, lastDispatch, sendFailed, env>>
    /\ UNCHANGED detachedVars

\* The process, having exited, is started again: the module is loaded anew
\* (cpuOverThresholdSince is null, no timer, no pending promise), while
\* LAST_ALERT_FILE is on disk as the previous process left it.
Restart ==
    /\ ~running
    /\ running' = TRUE
    /\ exitStatus' = Null
    /\ config' = NotLoaded
    /\ timer' = FALSE
    /\ firstCycle' = FALSE
    /\ cpuOverThresholdSince' = Null
    /\ runStart' = Null
    /\ inFlight' = 0
    /\ ResetLocals
    /\ UNCHANGED <<clock, lastAlertFile, recorded, interrupted, lastDispatch, sendFailed, env>>
    /\ UNCHANGED detachedVars

NextRestart == NextStartup \/ Restart

SpecRestart == InitStartup /\ [][NextRestart]_vars

\* ---------------------------------------------------------------- properties
HasAlert(as, title) == \E i \in DOMAIN as : as[i].title = title

\* the samples of the cycle that just returned, against their thresholds
CpuAtOrAbove == IsNum(cpu) /\ cpu.num >= CPU_THRESHOLD
MemAtOrAbove == IsNum(mem) /\ mem.num >= MEM_THRESHOLD
SwapAtOrAbove == IsNum(swap) /\ swap.num >= SWAP_THRESHOLD

\* C1: a cycle whose alert list is non-empty starts a POST if and only if
\* now - lastAlertTime >= ALERT_COOLDOWN, for the lastAlertTime it read.
C1_CooldownGate ==
    (pc = "checked" /\ Len(alerts) > 0) =>
        ((message # Null) <=>
            (IsNum(lastAlertTime) /\ clock - lastAlertTime.num >= ALERT_COOLDOWN))

\* a cycle dispatched exactly ALERT_COOLDOWN after the persisted timestamp
C1_Witness ==
    /\ pc = "checked"
    /\ message # Null
    /\ IsNum(lastAlertTime)
    /\ lastAlertTime.num > 0
    /\ clock - lastAlertTime.num = ALERT_COOLDOWN

\* C2: LAST_ALERT_FILE changes only in the step in which a POST resolves; a
\* cycle (with or without alerts, dispatching or suppressed), a pending POST
\* while time passes and a rejected POST leave it as it was.
C2_WrittenOnlyAfterSuccess == [][lastAlertFile' # lastAlertFile => PostResolves]_vars

\* a resolved POST has written its completion time, after a tick
C2_Witness ==
    /\ recorded # Null
    /\ recorded.num > StartTime
    /\ lastAlertFile = FileWith(toString(recorded.num))

\* C3: after a cycle whose CPU sample is below CPU_THRESHOLD or null there is
\* no CPU descriptor and cpuOverThresholdSince is null.
C3_BelowOrAbsentResets ==
    (pc = "checked" /\ (cpu = Null \/ (IsNum(cpu) /\ cpu.num < CPU_THRESHOLD))) =>
        (~HasAlert(alerts, CpuTitle) /\ cpuOverThresholdSince = Null)

\* an absent sample ended an excursion while memory and swap triggered
C3_Witness ==
    /\ pc = "checked"
    /\ cpu = Null
    /\ sinceBefore # Null
    /\ cpuOverThresholdSince = Null
    /\ HasAlert(alerts, MemTitle)
    /\ HasAlert(alerts, SwapTitle)

C5_InterruptionRestartsTimer ==
    (pc = "checked" /\ HasAlert(alerts, CpuTitle) /\ interrupted # Null) =>
        /\ runStart.num >= interrupted.at
        /\ clock - interrupted.at >= CPU_OVER_THRESHOLD_DURATION
        /\ alerts[1].value.duration = Num(clock - runStart.num)

\* the duration has elapsed since the excursion began but not since the
\* re-crossing that followed its interruption: no CPU descriptor
C5_Witness ==
    /\ pc = "checked"
    /\ CpuAtOrAbove
    /\ interrupted # Null
    /\ clock - interrupted.start >= CPU_OVER_THRESHOLD_DURATION
    /\ runStart.num >= interrupted.at
    /\ clock > runStart.num
    /\ ~HasAlert(alerts, CpuTitle)

\* C6: the first cycle of an excursion sets cpuOverThresholdSince to its own
\* timestamp and produces no CPU descriptor; with memory and swap not
\* triggering it starts no POST.
C6_FirstCycleOfExcursion ==
    (pc = "checked" /\ CpuAtOrAbove /\ sinceBefore = Null) =>
        /\ cpuOverThresholdSince = Num(clock)
        /\ ~HasAlert(alerts, CpuTitle)
        /\ (~MemAtOrAbove /\ ~SwapAtOrAbove) => message = Null

\* a first cycle of an excursion with nothing else triggering and no
\* cooldown that could suppress a dispatch
C6_Witness ==
    /\ pc = "checked"
    /\ CpuAtOrAbove
    /\ sinceBefore = Null
    /\ ~MemAtOrAbove /\ ~SwapAtOrAbove
    /\ lastAlertFile = AbsentFile
    /\ message = Null

\* C7: there is a memory (swap) descriptor if and only if the memory (swap)
\* sample of the same cycle is present and at or above its threshold,
\* whatever the other samples, the CPU timer and the earlier cycles are.
C7_MemSwapInstantaneous ==
    pc = "checked" =>
        /\ HasAlert(alerts, MemTitle) <=> MemAtOrAbove
        /\ HasAlert(alerts, SwapTitle) <=> SwapAtOrAbove

\* memory alone triggers in the very first cycle, at exactly the threshold
C7_Witness ==
    /\ pc = "checked"
    /\ clock = StartTime
    /\ cpu = Null /\ cpuOverThresholdSince = Null
    /\ mem = Num(MEM_THRESHOLD)
    /\ swap = Num(SWAP_THRESHOLD - 1)
    /\ Len(alerts) = 1
    /\ HasAlert(alerts, MemTitle)

\* C8 as stated: once a successful send has recorded T, no cycle with
\* now - T < ALERT_COOLDOWN starts a POST.
C8_Original ==
    (pc = "checked" /\ recorded # Null /\ clock - recorded.num < ALERT_COOLDOWN) =>
        message = Null

\* C8, amended: once a successful send has recorded T, no cycle with
\* now - T < ALERT_COOLDOWN whose read of the timestamp does not fail starts a
\* POST, whichever metrics trigger.
C8_GlobalCooldown ==
    (pc = "checked" /\ recorded # Null /\ clock - recorded.num < ALERT_COOLDOWN
        /\ ~readFailed) =>
        message = Null

\* a swap alert alone is suppressed by the timestamp a send has recorded
C8_Witness ==
    /\ pc = "checked"
    /\ recorded # Null
    /\ clock > recorded.num
    /\ lastAlertTime = recorded
    /\ ~readFailed
    /\ Len(alerts) = 1
    /\ HasAlert(alerts, SwapTitle)
    /\ message = Null

\* C9: every section of a message handed to axios.post is about a metric that
\* is at or above its threshold in the snapshot of the cycle that hands it
\* over, and shows that snapshot's value.
C9_SectionsFromSameCycle ==
    message # Null =>
        /\ pc = "checked"
        /\ \A i \in DOMAIN message.attachments :
              LET a == message.attachments[i] IN
                \/ a.title = CpuTitle /\ CpuAtOrAbove /\ a.text.usage = cpu
                \/ a.title = MemTitle /\ MemAtOrAbove /\ a.text.usage = mem
                \/ a.title = SwapTitle /\ SwapAtOrAbove /\ a.text.usage = swap

\* a dispatch after the cooldown of an earlier run's alert has ended, with
\* swap alone in the message
C9_Witness ==
    /\ pc = "checked"
    /\ message # Null
    /\ IsNum(lastAlertTime) /\ lastAlertTime.num > 0
    /\ clock > StartTime + 2 * TickMs
    /\ Len(message.attachments) = 1
    /\ message.attachments[1].title = SwapTitle
    /\ ~MemAtOrAbove

\* C10 as stated, when no read, write or POST fails: a cycle that starts a
\* POST comes at least ALERT_COOLDOWN after the cycle that started the
\* previous one (of two cycles the timer can run, CHECK_INTERVAL or more
\* apart).
C10_DispatchesCooldownApart ==
    [][(pc' = "checked" /\ message' # Null /\ lastDispatch # Null
            /\ clock' - lastDispatch.num >= CHECK_INTERVAL) =>
           clock' - lastDispatch.num >= ALERT_COOLDOWN]_vars

\* C11: sends never pile up: a timer cycle that starts a POST, a check interval
\* or more after the cycle that started the previous one, finds no POST still
\* in flight.  (Checked under SpecReliable.)
C11_NoPileUp ==
    [][(pc' = "checked" /\ message' # Null /\ lastDispatch # Null
            /\ clock' - lastDispatch.num >= CHECK_INTERVAL) =>
           inFlight = 0]_vars

\* C12: a rejected POST raises nothing: the process stays alive and neither
\* the persisted timestamp nor the CPU timer changes; and a cycle that runs
\* after a rejected POST with a non-empty alert list, the cooldown measured
\* from the persisted timestamp elapsed, starts a POST again.  (Checked under
\* SpecSends.)
C12_FailedPostIsContained ==
    [][/\ (inFlight' < inFlight /\ sendFailed') =>
            (running' /\ pc' = "idle" /\ lastAlertFile' = lastAlertFile
                /\ cpuOverThresholdSince' = cpuOverThresholdSince)
       /\ (pc' = "checked" /\ sendFailed /\ Len(alerts') > 0 /\ IsNum(lastAlertTime')
                /\ clock' - lastAlertTime'.num >= ALERT_COOLDOWN) =>
            (message' # Null /\ inFlight' = inFlight + 1)]_vars

\* a cycle after a rejected POST sends again
C12_Witness ==
    /\ sendFailed /\ running
    /\ pc = "checked" /\ message # Null /\ inFlight = 1
    /\ lastAlertTime = Num(0)

\* C13: reading the persisted timestamp gives 0 whenever the file is absent,
\* the read throws or the content is not an integer, and a cycle with a
\* non-empty alert list then starts a POST.
C13_UnreadableReadsAsZero ==
    (pc = "checked" /\ Len(alerts) > 0
        /\ (~lastAlertFile.exists \/ readFailed \/ parseInt(lastAlertFile.content) = NaN)) =>
    (lastAlertTime = Num(0) /\ message # Null)

\* the position of a metric in the order CPU, memory, swap
TitleRank(title) == IF title = CpuTitle THEN 1 ELSE IF title = MemTitle THEN 2 ELSE 3

\* C14: the alert list of a cycle holds at most one descriptor per metric, in
\* the order CPU, memory, swap, and the message built from it has exactly one
\* section per descriptor, in the same order.
C14_SectionsInFixedOrder ==
    pc = "checked" =>
        /\ \A i, j \in DOMAIN alerts :
                i < j => TitleRank(alerts[i].title) < TitleRank(alerts[j].title)
        /\ message # Null =>
                /\ Len(message.attachments) = Len(alerts)
                /\ \A i \in DOMAIN alerts :
                        /\ message.attachments[i].title = alerts[i].title
                        /\ message.attachments[i].text = alerts[i].value

\* a message with the three sections CPU, memory, swap
C14_Witness ==
    /\ pc = "checked" /\ message # Null
    /\ Len(message.attachments) = 3
    /\ message.attachments[1].title = CpuTitle
    /\ message.attachments[2].title = MemTitle
    /\ message.attachments[3].title = SwapTitle

\* C15: a cycle that passes the cooldown gate with a non-empty alert list
\* starts exactly one POST, which carries all the descriptors of the cycle;
\* any other cycle starts none.
C15_OnePostPerDispatch ==
    [][pc' = "checked" =>
          IF Len(alerts') > 0 /\ IsNum(lastAlertTime')
                /\ clock' - lastAlertTime'.num >= ALERT_COOLDOWN
          THEN /\ inFlight' = inFlight + 1
               /\ message' # Null
               /\ \A i \in DOMAIN alerts' :
                      \E k \in DOMAIN message'.attachments :
                          message'.attachments[k].title = alerts'[i].title
          ELSE inFlight' = inFlight /\ message' = Null]_vars

\* one POST in flight, started by a cycle with two descriptors or more
C15_Witness ==
    /\ pc = "checked" /\ message # Null
    /\ Len(alerts) >= 2 /\ Len(message.attachments) = Len(alerts)
    /\ inFlight = 1

\* C16: a cycle whose alert list is empty starts no POST, calls no context
\* provider, does not read the persisted timestamp and leaves it unchanged,
\* whatever the cooldown state.
C16_EmptyListDoesNothing ==
    [][(pc' = "checked" /\ alerts' = <<>>) =>
          /\ inFlight' = inFlight
          /\ message' = Null
          /\ context' = Null
          /\ lastAlertTime' = Null
          /\ lastAlertFile' = lastAlertFile]_vars

\* a cycle with an empty alert list while the cooldown has elapsed
C16_Witness ==
    /\ pc = "checked" /\ alerts = <<>>
    /\ IsNum(mem) /\ mem.num < MEM_THRESHOLD
    /\ CooldownElapsed(Num(clock), getLastAlertTime(lastAlertFile, FALSE))
    /\ inFlight = 0

\* a context line is present when its provider returned a value
LinePresent(l) == l.value # Null

ScalarProviders == {"getCpuUsage", "getMemUsage", "getSwapUsage"}
ObjectProviders ==
    {"getDetailedMemoryInfo", "getDetailedSwapInfo", "getSystemLoad", "getUptime",
     "getDiskUsage"}
ListProviders == {"getTopCpuProcesses", "getTopMemoryProcesses"}

\* C18: when the command throws, every provider returns the failure sentinel
\* of its type (null, or an empty list for the two process lists) and no
\* exception reaches the caller.  (Checked under SpecProviders.)
C18_CommandFailureGivesSentinel ==
    (returned # NotCalled /\ execOutcome = Thrown) =>
        /\ \A p \in ScalarProviders \cup ObjectProviders : returned[p] = Null
        /\ \A p \in ListProviders : returned[p] = EmptyList
        /\ \A p \in DOMAIN returned : returned[p] # Thrown

\* the providers were called while the command throws
C18_Witness ==
    /\ execOutcome = Thrown
    /\ returned # NotCalled
    /\ returned.getCpuUsage = Null
    /\ returned.getTopCpuProcesses = EmptyList

\* C19: when the command succeeds and prints `malformed output`, the two
\* process lists are empty and getDetailedMemoryInfo, getDetailedSwapInfo,
\* getSystemLoad and getDiskUsage each return null.  (Checked under
\* SpecProviders.)
C19_MalformedOutputGivesSentinel ==
    (returned # NotCalled /\ execOutcome = MalformedOutput) =>
        /\ \A p \in ListProviders : returned[p] = EmptyList
        /\ returned.getDetailedMemoryInfo = Null
        /\ returned.getDetailedSwapInfo = Null
        /\ returned.getSystemLoad = Null
        /\ returned.getDiskUsage = Null

\* C20: a scalar provider returns a number or null, whatever the command
\* printed: output that is not a number is surfaced as null.  (Checked under
\* SpecProviders.)
C20_ScalarIsNumberOrNull ==
    returned # NotCalled =>
        \A p \in ScalarProviders : returned[p] = Null \/ IsNum(returned[p])

\* the number an environment variable writes, or the default when it is unset
FromEnvironment(name, default) ==
    IF env[name] = Unset THEN default ELSE ParseDigits(env[name].str, 0)

\* C21: the thresholds and timings in use are the values of the environment
\* variables of the same names when these are set, and 90, 90, 50, 300000,
\* 1800000 and 300000 when they are not.  (Checked under SpecConfiguration.)
C21_ConfigurationFromEnvironment ==
    config # NotLoaded =>
        /\ config.CPU_THRESHOLD = FromEnvironment("CPU_THRESHOLD", 90)
        /\ config.MEM_THRESHOLD = FromEnvironment("MEM_THRESHOLD", 90)
        /\ config.SWAP_THRESHOLD = FromEnvironment("SWAP_THRESHOLD", 50)
        /\ config.CHECK_INTERVAL = FromEnvironment("CHECK_INTERVAL", 300000)
        /\ config.ALERT_COOLDOWN = FromEnvironment("ALERT_COOLDOWN", 1800000)
        /\ config.CPU_OVER_THRESHOLD_DURATION =
              FromEnvironment("CPU_OVER_THRESHOLD_DURATION", 300000)

\* the process is about to run lines 363-376
AtStartup == config # NotLoaded /\ ~timer /\ exitStatus = Null /\ running
WebhookUnsetOrPlaceholder ==
    env.SLACK_WEBHOOK_URL = Unset \/ env.SLACK_WEBHOOK_URL = PLACEHOLDER_URL
WebhookUnsetEmptyOrPlaceholder ==
    env.SLACK_WEBHOOK_URL \in {Unset, Str(<<>>), PLACEHOLDER_URL}

\* C22, as stated: when SLACK_WEBHOOK_URL is unset or the placeholder the
\* process exits with status 1 before any cycle runs and before the timer is
\* installed, and the process exits with status 1 in no other case.
C22_Original ==
    [][/\ (AtStartup /\ clock' = clock /\ WebhookUnsetOrPlaceholder) =>
            (exitStatus' = Num(1) /\ ~running' /\ ~timer' /\ pc' = "idle" /\ inFlight' = 0)
       /\ exitStatus' = Num(1) => WebhookUnsetOrPlaceholder]_vars

\* C22, amended: the same with SLACK_WEBHOOK_URL unset, empty or the
\* placeholder.  (Checked under SpecStartup.)
C22_ExitOnMissingWebhook ==
    [][/\ (AtStartup /\ clock' = clock /\ WebhookUnsetEmptyOrPlaceholder) =>
            (exitStatus' = Num(1) /\ ~running' /\ ~timer' /\ pc' = "idle" /\ inFlight' = 0)
       /\ exitStatus' = Num(1) =>
            (WebhookUnsetEmptyOrPlaceholder /\ ~timer' /\ cpuOverThresholdSince' = Null
                /\ runStart' = Null /\ recorded' = Null)]_vars

\* the process exited with status 1 on the placeholder
C22_Witness ==
    /\ exitStatus = Num(1)
    /\ env.SLACK_WEBHOOK_URL = PLACEHOLDER_URL
    /\ ~running /\ ~timer /\ pc = "idle"

\* C23: formatProcessList returns exactly 'No processes found' for a null
\* process list and for an empty one, in either mode.  (Checked under
\* SpecFormat.)
C23_NoProcessesFound ==
    (formatted # NotCalled /\ (processes = Null \/ processes = EmptyList)) =>
        formatted = [text |-> "No processes found"]

\* formatProcessList was called with an empty list in memory mode
C23_Witness ==
    /\ formatted = [text |-> "No processes found"]
    /\ processes = EmptyList /\ type = "memory"

C25_DiskAlertGate ==
    [][/\ diskPc' = "checked" =>
            /\ diskPosted' <=>
                  (/\ IsNum(diskUsage') /\ diskUsage'.num >= DISK_THRESHOLD
                   /\ IsNum(diskLastAlertTime')
                   /\ diskNow' - diskLastAlertTime'.num >= DISK_ALERT_COOLDOWN)
            /\ diskInFlight' = diskInFlight + (IF diskPosted' THEN 1 ELSE 0)
            /\ diskUsage' = Null => (diskLastAlertTime' = Null /\ ~diskPosted')
            /\ (IsNum(diskUsage') /\ diskUsage'.num >= DISK_THRESHOLD)
                  => diskLastAlertTime' # Null
            /\ diskFile' = diskFile
       /\ diskFile' # diskFile => (diskInFlight' = diskInFlight - 1 /\ DiskPostResolves)]_vars

\* a disk alert sent at the threshold, exactly when the cooldown has elapsed
C25_Witness ==
    /\ diskPc = "checked" /\ diskPosted
    /\ diskUsage = Num(DISK_THRESHOLD)
    /\ IsNum(diskLastAlertTime) /\ diskLastAlertTime.num > 0
    /\ diskNow - diskLastAlertTime.num = DISK_ALERT_COOLDOWN

\* C26: cpuOverThresholdSince changes only in a step of checkSystemHealth; a
\* cycle with CPU at or above the threshold sets it to the cycle's timestamp
\* when it was unset and keeps its value when it was set; a cycle with CPU
\* below the threshold or absent leaves it unset.
C26_SinceLifecycle ==
    [][/\ cpuOverThresholdSince' # cpuOverThresholdSince => (pc = "idle" /\ pc' = "checked")
       /\ (pc = "idle" /\ pc' = "checked") =>
            IF IsNum(cpu') /\ cpu'.num >= CPU_THRESHOLD
            THEN cpuOverThresholdSince' =
                    (IF cpuOverThresholdSince = Null THEN Num(clock')
                                                     ELSE cpuOverThresholdSince)
            ELSE cpuOverThresholdSince' = Null]_vars

\* a later cycle of an excursion has kept the timestamp of its first cycle
C26_Witness ==
    /\ pc = "checked"
    /\ CpuAtOrAbove
    /\ sinceBefore # Null
    /\ cpuOverThresholdSince = sinceBefore
    /\ cpuOverThresholdSince.num < clock

\* the time for which cpuOverThresholdSince has been set, at the cycle that
\* just returned
CpuOverFor == clock - cpuOverThresholdSince.num

C28_FailedWriteKeepsValue ==
    [][(\E outcome \in WriteOutcomes \ {"ok"} : Resolve(outcome))
          => lastAlertFile' = lastAlertFile]_vars

\* C29: checkSystemHealth returns while the POST it started is still pending,
\* and whenever a POST is pending and no cycle has run since the last event,
\* a cycle eventually runs and evaluates its snapshot, whether or not that
\* POST ever completes.  (Checked under SpecTimer, which is fair to the timer
\* and to nothing else.)
C29_SendNeverBlocks ==
    /\ [](pc = "checked" /\ message # Null => inFlight > 0)
    /\ (pc = "idle" /\ inFlight > 0) ~> (pc = "checked")

\* a cycle that sent nothing has run while the POST of an earlier cycle is
\* still pending, at a later time than the cycle that started it
C29_Witness ==
    /\ pc = "checked"
    /\ message = Null
    /\ inFlight > 0
    /\ clock > StartTime
    /\ recorded = Null /\ lastAlertFile = AbsentFile

C32_SendsLeaveCpuTimerAlone ==
    [][/\ inFlight' < inFlight => cpuOverThresholdSince' = cpuOverThresholdSince
       /\ (pc = "idle" /\ pc' = "checked" /\ cpuOverThresholdSince # Null
              /\ IsNum(cpu') /\ cpu'.num >= CPU_THRESHOLD) =>
            /\ cpuOverThresholdSince' = cpuOverThresholdSince
            /\ HasAlert(alerts', CpuTitle) <=>
                  (clock' - cpuOverThresholdSince.num >= CPU_OVER_THRESHOLD_DURATION)]_vars

\* a cycle of an excursion produces a CPU descriptor, suppressed by the
\* cooldown, after a send was recorded while the gate of the same excursion
\* was open
C32_Witness ==
    /\ pc = "checked"
    /\ HasAlert(alerts, CpuTitle)
    /\ message = Null
    /\ recorded # Null
    /\ lastAlertTime = recorded
    /\ recorded.num >= cpuOverThresholdSince.num + CPU_OVER_THRESHOLD_DURATION
    /\ clock > recorded.num

\* the timestamp LAST_ALERT_FILE holds, as a number; Null when it holds none
Persisted(file) ==
    IF file.exists /\ IsNum(parseInt(file.content)) THEN parseInt(file.content) ELSE Null

\* C33: a POST that resolves writes the time of its completion, which is not
\* before the cycle that started it; the persisted timestamp never decreases
\* and is never later than the current time.  (Checked under SpecReliable,
\* where several POSTs may be pending and complete at any later time.)
C33_TimestampIsCompletionTime ==
    [][/\ inFlight' < inFlight =>
            /\ lastAlertFile' = FileWith(toString(clock'))
            /\ lastDispatch # Null /\ lastDispatch.num <= clock'
       /\ Persisted(lastAlertFile) # Null =>
            /\ Persisted(lastAlertFile') # Null
            /\ Persisted(lastAlertFile').num >= Persisted(lastAlertFile).num
       /\ Persisted(lastAlertFile') # Null => Persisted(lastAlertFile').num <= clock']_vars

\* the file holds the completion time of a POST, later than the cycle that
\* started the latest POST, while another POST is still pending
C33_Witness ==
    /\ recorded # Null
    /\ lastAlertFile = FileWith(toString(recorded.num))
    /\ lastDispatch # Null
    /\ recorded.num > lastDispatch.num
    /\ inFlight > 0

\* what a read of the file gives when it does not throw
ReadOf(file) == IF file.exists THEN parseInt(file.content) ELSE Num(0)

\* C34: with both monitors running, a step of one monitor leaves the other's
\* timestamp file as it was, and each monitor's decision to send follows from
\* its own file alone: the health monitor's cycle with alerts sends exactly
\* when the cooldown has elapsed since the timestamp in .last_health_alert,
\* the disk monitor's cycle reads .last_disk_alert (or 0 when the read fails)
\* and sends exactly when the cooldown has elapsed since that.
C34_SeparateCooldowns ==
    [][/\ (diskInFlight' # diskInFlight \/ diskPc' # diskPc \/ diskNow' # diskNow)
            => lastAlertFile' = lastAlertFile
       /\ (inFlight' # inFlight \/ pc' # pc \/ clock' # clock) => diskFile' = diskFile
       /\ (pc = "idle" /\ pc' = "checked" /\ Len(alerts') > 0) =>
            (message' # Null <=>
                (/\ IsNum(ReadOf(lastAlertFile))
                 /\ clock' - ReadOf(lastAlertFile).num >= ALERT_COOLDOWN))
       /\ (diskPc = "idle" /\ diskPc' = "checked" /\ diskLastAlertTime' # Null) =>
            /\ diskLastAlertTime' \in {ReadOf(diskFile), Num(0)}
            /\ diskPosted' <=>
                  (/\ IsNum(diskLastAlertTime')
                   /\ diskNow' - diskLastAlertTime'.num >= DISK_ALERT_COOLDOWN)]_vars

\* the disk monitor sends while the cooldown of a health alert, recorded in
\* .last_health_alert, is running
C34_Witness ==
    /\ diskPc = "checked" /\ diskPosted
    /\ diskLastAlertTime = ReadOf(diskFile)
    /\ recorded # Null
    /\ lastAlertFile = FileWith(toString(recorded.num))
    /\ diskNow >= recorded.num
    /\ diskNow - recorded.num < ALERT_COOLDOWN
====
